---- MODULE Spec2Model ----
(***************************************************************************)
(* Model of the Looped backend (src/index.js): an Express route table      *)
(* whose handlers issue parameterised SQL statements through a pg Pool.    *)
(*                                                                         *)
(* Every `await pool.query(...)` is a point where other requests may run,  *)
(* so a handler is modelled as one action per segment between awaits.      *)
(* The database tables are the only shared state.                          *)
(*                                                                         *)
(* index.js holds two program texts, lines 1-114 and lines 115-371, each   *)
(* with its own imports, its own `const app = express()` and its own       *)
(* app.listen(5000).  A run serves one of the two programs; which one is   *)
(* part of the deployment (env.program).                                   *)
(***************************************************************************)
EXTENDS Integers, Sequences, FiniteSets, TLC

\* ---------------------------------------------------------------- bounds
MaxReq == 2          \* requests served concurrently in one behaviour
MaxSeqReq == 2       \* requests served one after the other in one behaviour
MaxFaults == 1       \* number of store statements that may fail
MaxDates == 2        \* calendar days of the progress ledger

\* ------------------------------------------------------------- constants
DefaultOffset == 0   \* const { offset = 0, ... } = req.query
DefaultLimit == 8    \* const { ..., limit = 8, ... } = req.query

\* ------------------------------------------------------- input domains
UserIds == {1, 2}
StreakIds == {1, 2, 3}
ReqUserIds == UserIds \cup {0}        \* 0: userId missing from the body (falsy)
ReqStreakIds == StreakIds \cup {4}    \* 4: an id with no streaks row
Emails == {"a@x", "b@x"}
Passwords == {"p", "q"}
Difficulties == {"easy", "hard"}
Dates == 1..MaxDates
\* request bodies: every well-formed one, and one with each field missing
SignupBodies ==
    [name : {"n"}, email : Emails, password : Passwords]
        \cup {[name |-> "", email |-> "a@x", password |-> "p"],
              [name |-> "n", email |-> "", password |-> "p"],
              [name |-> "n", email |-> "a@x", password |-> ""]}
SigninBodies ==
    [email : Emails, password : Passwords]
        \cup {[email |-> "", password |-> "p"], [email |-> "a@x", password |-> ""]}
ProgressKeys == UserIds \X {1, 2} \X Dates

VARIABLES
    users,            \* table users: sequence of rows, id = position
    streaks,          \* table streaks: id -> row
    user_streaks,     \* table user_streaks: sequence of rows, in insertion order
    streak_progress,  \* table streak_progress: <<user, streak, date>> -> done flags of its rows
    env,              \* deployment: schema constraints and framework behaviour
    req,              \* request slot -> request being served, its position and response
    faults,           \* store statements that have failed so far
    lastProgress,     \* last progress-ledger request and its response
    serving           \* the node process is running and accepts requests

vars == <<users, streaks, user_streaks, streak_progress, env, req, faults, lastProgress,
          serving>>

Slots == DOMAIN req

\* ------------------------------------------------------------ the store
DB == [users |-> users, streaks |-> streaks, user_streaks |-> user_streaks]

\* bcrypt.hash / bcrypt.compare
Hash(password) == <<"bcrypt", password>>
Compare(password, hashed) == hashed = Hash(password)

\* SELECT * FROM users WHERE email=$1
SelectUsersByEmail(email) == SelectSeq(users, LAMBDA row : row.email = email)

\* SELECT id FROM streaks WHERE id = $1
SelectStreakById(id) == IF id \in DOMAIN streaks THEN <<id>> ELSE <<>>

\* SELECT * FROM user_streaks WHERE user_id = $1 AND streak_id = $2
SelectMembership(userId, id) ==
    SelectSeq(user_streaks, LAMBDA row : row.user_id = userId /\ row.streak_id = id)

\* COUNT(us.id) ... LEFT JOIN user_streaks us ON s.id = us.streak_id AND us.is_active = true
ActiveMembers(id) ==
    Len(SelectSeq(user_streaks, LAMBDA row : row.streak_id = id /\ row.is_active))

Reverse(seq) == [i \in 1..Len(seq) |-> seq[Len(seq) + 1 - i]]

\* ------------------------------------------------------------- requests
Idle ==
    [route |-> "none", handler |-> 0, pc |-> "idle", user |-> 0, streak |-> 0, email |-> "",
     password |-> "", name |-> "", difficulty |-> "", offset |-> 0, limit |-> 0,
     status |-> 0, msg |-> "", rows |-> <<>>, nresp |-> 0,
     inserted |-> FALSE, incremented |-> FALSE, conflict |-> FALSE,
     found |-> <<>>, hashed |-> <<>>, pre |-> <<>>, post |-> <<>>]

Ended(r) == req[r].pc \in {"done", "hung"}
InFlight(r) == req[r].pc \notin {"idle", "done", "hung"}

\* A slot takes a new request: slots are used in order; in the sequential
\* regime a request is accepted only when no other one is being served.
CanBegin(r, seq) ==
    /\ serving
    /\ req[r].pc = "idle"
    /\ \A q \in Slots : q < r => req[q].pc # "idle"
    /\ seq => \A q \in Slots : ~InFlight(q)

\* res.status(status).json(body), then the handler returns
Respond(rq, status, msg, rows) ==
    [rq EXCEPT !.pc = "done", !.status = status, !.msg = msg, !.rows = rows,
               !.nresp = rq.nresp + 1]

\* An exception escapes the async handler of request r: its promise rejects.
\* What follows depends on the installed versions, which the repository does
\* not pin:
\*   "forwarded"  Express 5 passes the rejection to the default error
\*                handler, which answers 500;
\*   "ignored"    Express 4 drops it (node < 15 only warns): the request
\*                never gets a response;
\*   "exit"       Express 4 on node >= 15: the unhandled rejection ends the
\*                process, abandoning every request being served.
Unhandled(r, rq) ==
    CASE env.rejections = "forwarded" ->
            /\ req' = [req EXCEPT ![r] =
                  Respond(rq, 500, "Internal Server Error (framework)", <<>>)]
            /\ UNCHANGED serving
      [] env.rejections = "ignored" ->
            /\ req' = [req EXCEPT ![r] = [rq EXCEPT !.pc = "hung"]]
            /\ UNCHANGED serving
      [] env.rejections = "exit" ->
            /\ req' = [q \in Slots |->
                  IF q = r THEN [rq EXCEPT !.pc = "hung"]
                  ELSE IF InFlight(q) THEN [req[q] EXCEPT !.pc = "hung", !.post = DB]
                  ELSE req[q]]
            /\ serving' = FALSE

\* The database the server is started on: one registered user, who created
\* the three streaks of the catalogue and joined two of them (one membership
\* since deactivated); participant_count agrees with the membership rows.
\* No route of index.js writes created_by, created_at or is_active.
InitStore ==
    /\ users = <<[id |-> 1, name |-> "n", email |-> "a@x", password |-> Hash("p")]>>
    /\ streaks = [id \in StreakIds |->
                     [difficulty |-> IF id = 1 THEN "hard" ELSE "easy",
                      participant_count |-> IF id = 3 THEN 0 ELSE 1,
                      created_by |-> 1, created_at |-> id]]
    /\ user_streaks =
          << [user_id |-> 1, streak_id |-> 1, joined_at |-> 1, is_active |-> TRUE],
             [user_id |-> 1, streak_id |-> 2, joined_at |-> 2, is_active |-> FALSE] >>
    /\ streak_progress = [k \in ProgressKeys |-> <<>>]
    /\ faults = 0
    /\ serving = TRUE
    /\ lastProgress = [op |-> "none", key |-> <<0, 0, 0>>, before |-> "Absent",
                       status |-> 0, body |-> ""]

\* program: which of the two program texts runs (1: lines 1-114, 2: lines
\* 115-371); the unique indexes of the schema; the fate of a rejected handler
InitEnv ==
    env \in [program : {1, 2}, uniqueMembership : BOOLEAN, uniqueEmail : BOOLEAN,
             rejections : {"forwarded", "ignored", "exit"}]

Init == InitStore /\ InitEnv /\ req = [r \in 1..MaxReq |-> Idle]

InitSeq == InitStore /\ InitEnv /\ req = [r \in 1..MaxSeqReq |-> Idle]

InitProgress ==
    /\ InitStore
    /\ env = [program |-> 2, uniqueMembership |-> TRUE, uniqueEmail |-> TRUE,
              rejections |-> "forwarded"]
    /\ req = [r \in 1..MaxReq |-> Idle]

\* ------------------------------------------------ the route table (Express)
\* app.METHOD(path, handler) registrations of each program, in source order.
\* Express tries the routes of the app in registration order; the first
\* match serves the request.  Requests for a path the running program does
\* not register are answered by Express itself and are not modelled.
RouteTable(program) ==
    IF program = 1
    THEN << <<"POST /signup", 21>>, <<"POST /signin", 56>>, <<"GET /streaks", 91>> >>
    ELSE << <<"POST /signup", 135>>, <<"POST /signin", 170>>, <<"GET /streaks", 205>>,
            <<"GET /streak/:id", 243>>, <<"POST /streak/:id/join", 274>>,
            <<"GET /user/:userId/streaks", 323>>, <<"POST /streaks", 352>> >>

Dispatch(path) ==
    LET table == RouteTable(env.program)
        hits == {i \in 1..Len(table) : table[i][1] = path}
    IN IF hits = {} THEN 0
       ELSE table[CHOOSE i \in hits : \A j \in hits : i <= j][2]

\* ------------------------------------------- POST /streak/:id/join (274-320)
JoinBegin(r, seq) ==
    /\ CanBegin(r, seq)
    /\ Dispatch("POST /streak/:id/join") # 0
    /\ \E userId \in ReqUserIds, id \in ReqStreakIds :
         LET rq == [Idle EXCEPT !.route = "join",
                                !.handler = Dispatch("POST /streak/:id/join"),
                                !.user = userId, !.streak = id, !.pre = DB]
         IN req' = [req EXCEPT ![r] =
                IF userId = 0
                THEN [Respond(rq, 400, "User ID is required", <<>>) EXCEPT !.post = DB]
                ELSE [rq EXCEPT !.pc = "streakCheck"]]
    /\ UNCHANGED <<users, streaks, user_streaks, streak_progress, env, faults, lastProgress, serving>>

JoinStreakCheck(r) ==
    /\ req[r].route = "join" /\ req[r].pc = "streakCheck"
    /\ req' = [req EXCEPT ![r] =
          IF Len(SelectStreakById(req[r].streak)) = 0
          THEN [Respond(req[r], 404, "Streak not found", <<>>) EXCEPT !.post = DB]
          ELSE [req[r] EXCEPT !.pc = "existing"]]
    /\ UNCHANGED <<users, streaks, user_streaks, streak_progress, env, faults, lastProgress, serving>>

JoinExistingMutant(r) ==
    /\ req[r].route = "join" /\ req[r].pc = "existing"
    /\ req' = [req EXCEPT ![r] = [req[r] EXCEPT !.pc = "insert"]]
    /\ UNCHANGED <<users, streaks, user_streaks, streak_progress, env, faults, lastProgress, serving>>

JoinExisting(r) ==
    /\ req[r].route = "join" /\ req[r].pc = "existing"
    /\ req' = [req EXCEPT ![r] =
          IF Len(SelectMembership(req[r].user, req[r].streak)) > 0
          THEN [Respond(req[r], 400, "User already joined this streak", <<>>)
                    EXCEPT !.post = DB]
          ELSE [req[r] EXCEPT !.pc = "insert"]]
    /\ UNCHANGED <<users, streaks, user_streaks, streak_progress, env, faults, lastProgress, serving>>

\* INSERT INTO user_streaks (user_id, streak_id, joined_at) VALUES ($1, $2, NOW());
\* a unique index on (user_id, streak_id), when the schema has one, rejects a
\* second row and the catch block answers 500.  joined_at is the time of the
\* insert (rows are kept in insertion order); is_active is not written and
\* takes the column default, true.
JoinInsert(r) ==
    /\ req[r].route = "join" /\ req[r].pc = "insert"
    /\ IF env.uniqueMembership /\ Len(SelectMembership(req[r].user, req[r].streak)) > 0
       THEN /\ req' = [req EXCEPT ![r] =
                  [Respond(req[r], 500, "Internal server error", <<>>)
                      EXCEPT !.conflict = TRUE, !.post = DB]]
            /\ UNCHANGED user_streaks
       ELSE /\ user_streaks' = Append(user_streaks,
                  [user_id |-> req[r].user, streak_id |-> req[r].streak,
                   joined_at |-> Len(user_streaks) + 1, is_active |-> TRUE])
            /\ req' = [req EXCEPT ![r] =
                  [req[r] EXCEPT !.pc = "update", !.inserted = TRUE]]
    /\ UNCHANGED <<users, streaks, streak_progress, env, faults, lastProgress, serving>>

\* UPDATE streaks SET participant_count = participant_count + 1; res.json(...)
JoinUpdate(r) ==
    /\ req[r].route = "join" /\ req[r].pc = "update"
    /\ streaks' = [streaks EXCEPT ![req[r].streak].participant_count = @ + 1]
    /\ req' = [req EXCEPT ![r] =
          [Respond(req[r], 200, "Streak joined successfully", <<>>)
              EXCEPT !.incremented = TRUE,
                     !.post = [DB EXCEPT !.streaks = streaks']]]
    /\ UNCHANGED <<users, user_streaks, streak_progress, env, faults, lastProgress, serving>>

\* --------------------------------------------- POST /signup (21-53, 135-167)
SignupBegin(r, seq) ==
    /\ CanBegin(r, seq)
    /\ \E body \in SignupBodies :
         LET name == body.name
             email == body.email
             password == body.password
             rq == [Idle EXCEPT !.route = "signup", !.handler = Dispatch("POST /signup"),
                                !.name = name, !.email = email,
                                !.password = password, !.pre = DB]
         IN req' = [req EXCEPT ![r] =
                IF name = "" \/ email = "" \/ password = ""
                THEN [Respond(rq, 400, "All fields are required", <<>>) EXCEPT !.post = DB]
                ELSE [rq EXCEPT !.pc = "userExists"]]
    /\ UNCHANGED <<users, streaks, user_streaks, streak_progress, env, faults, lastProgress, serving>>

SignupCheck(r) ==
    /\ req[r].route = "signup" /\ req[r].pc = "userExists"
    /\ req' = [req EXCEPT ![r] =
          IF Len(SelectUsersByEmail(req[r].email)) > 0
          THEN [Respond(req[r], 400, "Email already registered", <<>>) EXCEPT !.post = DB]
          ELSE [req[r] EXCEPT !.pc = "hash"]]
    /\ UNCHANGED <<users, streaks, user_streaks, streak_progress, env, faults, lastProgress, serving>>

\* await bcrypt.hash(password, 10) resolves; the INSERT is sent
SignupHash(r) ==
    /\ req[r].route = "signup" /\ req[r].pc = "hash"
    /\ req' = [req EXCEPT ![r] =
          [req[r] EXCEPT !.pc = "insertUser", !.hashed = Hash(req[r].password)]]
    /\ UNCHANGED <<users, streaks, user_streaks, streak_progress, env, faults, lastProgress, serving>>

\* INSERT INTO users ... RETURNING id, name, email; jwt.sign; res.json.
\* A unique index on users.email, when the schema has one, rejects a second
\* row for the email and the catch block answers 500.
SignupInsert(r) ==
    /\ req[r].route = "signup" /\ req[r].pc = "insertUser"
    /\ LET row == [id |-> Len(users) + 1, name |-> req[r].name, email |-> req[r].email,
                   password |-> req[r].hashed]
       IN IF env.uniqueEmail /\ Len(SelectUsersByEmail(req[r].email)) > 0
          THEN /\ req' = [req EXCEPT ![r] =
                     [Respond(req[r], 500, "Server error", <<>>)
                         EXCEPT !.conflict = TRUE, !.post = DB]]
               /\ UNCHANGED users
          ELSE /\ users' = Append(users, row)
               /\ req' = [req EXCEPT ![r] =
                     [Respond(req[r], 200, "user+token",
                              <<[id |-> row.id, name |-> row.name, email |-> row.email]>>)
                         EXCEPT !.inserted = TRUE, !.post = [DB EXCEPT !.users = users']]]
    /\ UNCHANGED <<streaks, user_streaks, streak_progress, env, faults, lastProgress, serving>>

\* --------------------------------------------- POST /signin (56-88, 170-202)
SigninBegin(r, seq) ==
    /\ CanBegin(r, seq)
    /\ \E body \in SigninBodies :
         LET email == body.email
             password == body.password
             rq == [Idle EXCEPT !.route = "signin", !.handler = Dispatch("POST /signin"),
                                !.email = email,
                                !.password = password, !.pre = DB]
         IN req' = [req EXCEPT ![r] =
                IF email = "" \/ password = ""
                THEN [Respond(rq, 400, "All fields are required", <<>>) EXCEPT !.post = DB]
                ELSE [rq EXCEPT !.pc = "user"]]
    /\ UNCHANGED <<users, streaks, user_streaks, streak_progress, env, faults, lastProgress, serving>>

\* SELECT * FROM users WHERE email = $1 is answered; it has no ORDER BY, so
\* rows[0] is any match.  With a row, bcrypt.compare is called and awaited.
SigninQuery(r) ==
    /\ req[r].route = "signin" /\ req[r].pc = "user"
    /\ LET found == SelectUsersByEmail(req[r].email)
       IN IF Len(found) = 0
          THEN req' = [req EXCEPT ![r] =
                  [Respond(req[r], 400, "Invalid credentials", <<>>) EXCEPT !.post = DB]]
          ELSE \E i \in 1..Len(found) :
                  req' = [req EXCEPT ![r] =
                     [req[r] EXCEPT !.pc = "compare", !.found = found[i]]]
    /\ UNCHANGED <<users, streaks, user_streaks, streak_progress, env, faults, lastProgress, serving>>

\* bcrypt.compare resolves: 400, or jwt.sign and res.json
SigninCompare(r) ==
    /\ req[r].route = "signin" /\ req[r].pc = "compare"
    /\ LET row == req[r].found
       IN req' = [req EXCEPT ![r] =
             IF ~Compare(req[r].password, row.password)
             THEN [Respond(req[r], 400, "Invalid credentials", <<>>) EXCEPT !.post = DB]
             ELSE [Respond(req[r], 200, "user+token",
                      <<[id |-> row.id, name |-> row.name, email |-> row.email]>>)
                      EXCEPT !.post = DB]]
    /\ UNCHANGED <<users, streaks, user_streaks, streak_progress, env, faults, lastProgress, serving>>

\* ---------------------------------------------- GET /streaks (91-112, 205-240)
\* handler of line 91 (program 1): the query string is not read.
\*   FROM streaks s JOIN users u ON s.created_by = u.id
\*   LEFT JOIN user_streaks us ON s.id = us.streak_id AND us.is_active = true
\*   GROUP BY s.id, u.name ORDER BY s.created_at DESC
RECURSIVE NewestFirst(_)
NewestFirst(ids) ==
    IF ids = {} THEN <<>>
    ELSE LET id == CHOOSE x \in ids :
                      \A y \in ids : streaks[x].created_at >= streaks[y].created_at
         IN <<[id |-> id, difficulty |-> streaks[id].difficulty,
               participant_count |-> ActiveMembers(id)]>>
            \o NewestFirst(ids \ {id})

AllStreaksNewestFirst ==
    NewestFirst({id \in DOMAIN streaks :
                    \E i \in 1..Len(users) : users[i].id = streaks[id].created_by})

\* handler of line 205 (program 2): WHERE difficulty = $1 when given, ORDER
\* BY participant_count DESC (ties in any order), OFFSET, LIMIT
StreakRow(id) ==
    [id |-> id, difficulty |-> streaks[id].difficulty,
     participantCount |-> streaks[id].participant_count]

Min(a, b) == IF a < b THEN a ELSE b

StreaksByPopularityMutant(offset, limit, difficulty) ==
    LET ids == DOMAIN streaks
        n == Cardinality(ids)
        orders == {f \in [1..n -> ids] :
                     /\ \A i, j \in 1..n : i # j => f[i] # f[j]
                     /\ \A i, j \in 1..n : i < j =>
                           streaks[f[i]].participant_count >= streaks[f[j]].participant_count}
    IN {SubSeq([i \in 1..n |-> StreakRow(f[i])], offset + 1, Min(n, offset + limit)) :
           f \in orders}

StreaksByPopularity(offset, limit, difficulty) ==
    LET ids == {id \in DOMAIN streaks : difficulty = "" \/ streaks[id].difficulty = difficulty}
        n == Cardinality(ids)
        orders == {f \in [1..n -> ids] :
                     /\ \A i, j \in 1..n : i # j => f[i] # f[j]
                     /\ \A i, j \in 1..n : i < j =>
                           streaks[f[i]].participant_count >= streaks[f[j]].participant_count}
    IN {SubSeq([i \in 1..n |-> StreakRow(f[i])], offset + 1, Min(n, offset + limit)) :
           f \in orders}

ListStreaksBegin(r, seq) ==
    /\ CanBegin(r, seq)
    /\ \E difficulty \in Difficulties \cup {""}, offset \in {DefaultOffset, 1},
          limit \in {1, DefaultLimit} :
         req' = [req EXCEPT ![r] =
                   [Idle EXCEPT !.route = "listStreaks",
                                !.handler = Dispatch("GET /streaks"), !.pc = "result",
                                !.difficulty = difficulty, !.offset = offset,
                                !.limit = limit, !.pre = DB]]
    /\ UNCHANGED <<users, streaks, user_streaks, streak_progress, env, faults, lastProgress, serving>>

ListStreaksQuery(r) ==
    /\ req[r].route = "listStreaks" /\ req[r].pc = "result"
    /\ \E rows \in IF req[r].handler = 91
                   THEN {AllStreaksNewestFirst}
                   ELSE StreaksByPopularity(req[r].offset, req[r].limit, req[r].difficulty) :
          req' = [req EXCEPT ![r] = [Respond(req[r], 200, "rows", rows) EXCEPT !.post = DB]]
    /\ UNCHANGED <<users, streaks, user_streaks, streak_progress, env, faults, lastProgress, serving>>

\* ------------------------------------------------- GET /streak/:id (243-271)
GetStreakBegin(r, seq) ==
    /\ CanBegin(r, seq)
    /\ Dispatch("GET /streak/:id") # 0
    /\ \E id \in ReqStreakIds :
         req' = [req EXCEPT ![r] =
                   [Idle EXCEPT !.route = "getStreak", !.handler = Dispatch("GET /streak/:id"),
                                !.pc = "result", !.streak = id, !.pre = DB]]
    /\ UNCHANGED <<users, streaks, user_streaks, streak_progress, env, faults, lastProgress, serving>>

GetStreakQuery(r) ==
    /\ req[r].route = "getStreak" /\ req[r].pc = "result"
    /\ LET id == req[r].streak
       IN req' = [req EXCEPT ![r] =
             IF Len(SelectStreakById(id)) = 0
             THEN [Respond(req[r], 404, "Streak not found", <<>>) EXCEPT !.post = DB]
             ELSE [Respond(req[r], 200, "row", <<StreakRow(id)>>) EXCEPT !.post = DB]]
    /\ UNCHANGED <<users, streaks, user_streaks, streak_progress, env, faults, lastProgress, serving>>

\* --------------------------------------- GET /user/:userId/streaks (323-348)
\* FROM user_streaks us JOIN streaks s ON us.streak_id = s.id
\* WHERE us.user_id = $1 ORDER BY us.joined_at DESC: one row per membership
\* row of the user whose streak exists, last joined first
UserStreakRows(userId) ==
    LET mine == SelectSeq(user_streaks,
                    LAMBDA row : row.user_id = userId /\ row.streak_id \in DOMAIN streaks)
    IN Reverse([i \in 1..Len(mine) |->
                  [id |-> mine[i].streak_id,
                   difficulty |-> streaks[mine[i].streak_id].difficulty,
                   participantCount |-> streaks[mine[i].streak_id].participant_count,
                   joined_at |-> mine[i].joined_at]])

UserStreaksBegin(r, seq) ==
    /\ CanBegin(r, seq)
    /\ Dispatch("GET /user/:userId/streaks") # 0
    /\ \E userId \in UserIds :
         req' = [req EXCEPT ![r] =
                   [Idle EXCEPT !.route = "userStreaks",
                                !.handler = Dispatch("GET /user/:userId/streaks"),
                                !.pc = "result", !.user = userId, !.pre = DB]]
    /\ UNCHANGED <<users, streaks, user_streaks, streak_progress, env, faults, lastProgress, serving>>

UserStreaksQuery(r) ==
    /\ req[r].route = "userStreaks" /\ req[r].pc = "result"
    /\ req' = [req EXCEPT ![r] =
          [Respond(req[r], 200, "rows", UserStreakRows(req[r].user))
              EXCEPT !.post = DB]]
    /\ UNCHANGED <<users, streaks, user_streaks, streak_progress, env, faults, lastProgress, serving>>

\* ---------------------------------------------------- POST /streaks (352-369)
\* Line 354 reads the identifier `emoji`, which is declared nowhere in the
\* module: evaluating it throws ReferenceError before the try block, so the
\* INSERT of lines 357-363 is never issued and the handler's promise rejects.
CreateStreak(r, seq) ==
    /\ CanBegin(r, seq)
    /\ Dispatch("POST /streaks") # 0
    /\ \E difficulty \in Difficulties, participantCount \in {0, 5} :
         Unhandled(r, [Idle EXCEPT !.route = "createStreak",
                                   !.handler = Dispatch("POST /streaks"),
                                   !.difficulty = difficulty,
                                   !.limit = participantCount,
                                   !.pre = DB, !.post = DB])
    /\ UNCHANGED <<users, streaks, user_streaks, streak_progress, env, faults, lastProgress>>

\* ------------------------------------------------------------ store errors
\* pool.query rejects (connection lost, statement error): control moves to
\* the handler's catch block.  The GET /streaks handler of line 91 calls
\* console.err, which is not a function: the catch block itself throws.
QueryPcs == {"userExists", "insertUser", "user", "result",
             "streakCheck", "existing", "insert", "update"}

CatchThrows(rq) == rq.route = "listStreaks" /\ rq.handler = 91

Catch(rq) ==
    CASE rq.route \in {"signup", "signin"} -> Respond(rq, 500, "Server error", <<>>)
      [] rq.route = "listStreaks" -> Respond(rq, 500, "err.message", <<>>)
      [] OTHER -> Respond(rq, 500, "Internal server error", <<>>)

StoreFault(r) ==
    /\ req[r].pc \in QueryPcs
    /\ faults < MaxFaults
    /\ faults' = faults + 1
    /\ IF CatchThrows(req[r])
       THEN Unhandled(r, [req[r] EXCEPT !.post = DB])
       ELSE /\ req' = [req EXCEPT ![r] = [Catch(req[r]) EXCEPT !.post = DB]]
            /\ UNCHANGED serving
    /\ UNCHANGED <<users, streaks, user_streaks, streak_progress, env, lastProgress>>

\* ------------------------------------------------------- specifications
Step(r, seq) ==
    \/ SignupBegin(r, seq)
    \/ SignupCheck(r)
    \/ SignupHash(r)
    \/ SignupInsert(r)
    \/ SigninBegin(r, seq)
    \/ SigninQuery(r)
    \/ SigninCompare(r)
    \/ ListStreaksBegin(r, seq)
    \/ ListStreaksQuery(r)
    \/ GetStreakBegin(r, seq)
    \/ GetStreakQuery(r)
    \/ JoinBegin(r, seq)
    \/ JoinStreakCheck(r)
    \/ JoinExisting(r)
    \/ JoinInsert(r)
    \/ JoinUpdate(r)
    \/ UserStreaksBegin(r, seq)
    \/ UserStreaksQuery(r)
    \/ CreateStreak(r, seq)

\* requests served concurrently, store statements may fail
Next == \E r \in Slots : Step(r, FALSE) \/ StoreFault(r)

Spec == Init /\ [][Next]_vars

\* requests served one after the other by a healthy store
SeqNext == \E r \in Slots : Step(r, TRUE)

SpecSeq == InitSeq /\ [][SeqNext]_vars

\* ------------------------------------------------------ progress ledger
\* POST /streak/:id/progress and DELETE /streak/:streakId/progress are not
\* part of src/index.js; they are modelled from sections 4.3 and 6 of the
\* specification: one upsert statement, one delete statement.
EntryState(key) == IF Len(streak_progress[key]) = 0 THEN "Absent" ELSE "Done"

MarkDoneMutant(key) ==
    /\ streak_progress' = [streak_progress EXCEPT ![key] = Append(@, TRUE)]
    /\ lastProgress' = [op |-> "markDone", key |-> key, before |-> EntryState(key),
                        status |-> 200, body |-> "Marked done"]
    /\ UNCHANGED <<users, streaks, user_streaks, env, req, faults, serving>>

\* insert with done=true; on a key conflict set done=true on the existing row
MarkDone(key) ==
    /\ streak_progress' = [streak_progress EXCEPT ![key] =
          IF Len(@) = 0 THEN <<TRUE>> ELSE [i \in 1..Len(@) |-> TRUE]]
    /\ lastProgress' = [op |-> "markDone", key |-> key, before |-> EntryState(key),
                        status |-> 200, body |-> "Marked done"]
    /\ UNCHANGED <<users, streaks, user_streaks, env, req, faults, serving>>

\* delete the rows of the key, whether or not there are any
DeleteProgress(key) ==
    /\ streak_progress' = [streak_progress EXCEPT ![key] = <<>>]
    /\ lastProgress' = [op |-> "deleteProgress", key |-> key, before |-> EntryState(key),
                        status |-> 200, body |-> "success:true"]
    /\ UNCHANGED <<users, streaks, user_streaks, env, req, faults, serving>>

ProgressNext == \E key \in DOMAIN streak_progress : MarkDone(key) \/ DeleteProgress(key)

SpecProgress == InitProgress /\ [][ProgressNext]_vars

\* ================================================================ claims
AllQuiet == \A r \in Slots : ~InFlight(r)
JoinKey(r) == <<req[r].user, req[r].streak>>
RowsOf(table, k) ==
    SelectSeq(table, LAMBDA row : row.user_id = k[1] /\ row.streak_id = k[2])
\* number of user_streaks rows of a streak
MembershipRows(id) == Len(SelectSeq(user_streaks, LAMBDA row : row.streak_id = id))
IsJoin(r) == req[r].route = "join" /\ req[r].user \in UserIds /\ req[r].streak \in StreakIds

\* two consecutive join requests for the same (user, streak), the first one
\* received when the pair had no membership row, both answered or abandoned
JoinedTwice(i) ==
    /\ i \in Slots /\ i + 1 \in Slots
    /\ IsJoin(i) /\ IsJoin(i + 1) /\ JoinKey(i) = JoinKey(i + 1)
    /\ Ended(i) /\ Ended(i + 1)
    /\ Len(RowsOf(req[i].pre.user_streaks, JoinKey(i))) = 0

\* C1: of two sequential joins of a streak by a user with no prior
\* membership, the first answers 200 "Streak joined successfully", the second
\* 400 "User already joined this streak"; afterwards there is exactly one
\* membership row and the count is one more than before the first; the second
\* request leaves every table as it found it.
C1_JoinTwice ==
    \A i \in Slots : JoinedTwice(i) =>
        LET k == JoinKey(i)
            s == req[i].streak
        IN /\ req[i].status = 200 /\ req[i].msg = "Streak joined successfully"
           /\ req[i].nresp = 1 /\ req[i + 1].nresp = 1
           /\ req[i + 1].status = 400
           /\ req[i + 1].msg = "User already joined this streak"
           /\ Len(RowsOf(req[i + 1].post.user_streaks, k)) = 1
           /\ req[i + 1].post.streaks[s].participant_count
                 = req[i].pre.streaks[s].participant_count + 1
           /\ req[i + 1].post = req[i + 1].pre

C1_Witness == \E i \in Slots : JoinedTwice(i)

\* C2: whenever no request is being served, every streak's participant_count
\* equals the number of its user_streaks rows.
C2_CountEqualsRows ==
    AllQuiet => \A s \in DOMAIN streaks : streaks[s].participant_count = MembershipRows(s)

\* C3: a (user, streak) pair never has more than one membership row, and at
\* most one join request of the pair has incremented the count.
C3_OneRowPerPair ==
    \A k \in UserIds \X StreakIds :
        /\ Len(RowsOf(user_streaks, k)) <= 1
        /\ Cardinality({r \in Slots : IsJoin(r) /\ JoinKey(r) = k /\ req[r].incremented}) <= 1

\* C4: a join request that has ended has either inserted its membership row
\* and incremented the count, or done neither.
C4_InsertAndIncrementAtomic ==
    \A r \in Slots : (req[r].route = "join" /\ Ended(r)) =>
        (req[r].inserted <=> req[r].incremented)

\* C5: a join whose INSERT is rejected by the unique index answers 400
\* "User already joined this streak" and does not increment the count.
C5_ConflictIsAlreadyJoined ==
    \A r \in Slots : (req[r].route = "join" /\ req[r].conflict) =>
        /\ req[r].status = 400 /\ req[r].msg = "User already joined this streak"
        /\ ~req[r].incremented

\* C6: a request whose handler has ended has received exactly one response.
C6_AlwaysAnswered ==
    \A r \in Slots : Ended(r) => req[r].nresp = 1

\* C7: a createStreak request that has ended was answered 201 and added
\* exactly one streaks row.
C7_CreateSucceeds ==
    \A r \in Slots : (req[r].route = "createStreak" /\ Ended(r)) =>
        /\ req[r].status = 201
        /\ Cardinality(DOMAIN req[r].post.streaks)
             = Cardinality(DOMAIN req[r].pre.streaks) + 1

\* C8: no email has more than one users row, and a signup that does not
\* insert because the email is taken answers 400 "Email already registered".
C8_OneUserPerEmail ==
    /\ \A e \in Emails : Len(SelectUsersByEmail(e)) <= 1
    /\ \A r \in Slots : (req[r].route = "signup" /\ req[r].conflict) =>
          (req[r].status = 400 /\ req[r].msg = "Email already registered")

\* C9: markDone from Absent or Done leaves exactly one entry, done=true, and
\* answers success; deleteProgress from Done or Absent leaves no entry and
\* answers success.
C9_ProgressStateMachine ==
    LET k == lastProgress.key
    IN /\ lastProgress.op = "markDone" =>
            (streak_progress[k] = <<TRUE>> /\ lastProgress.status = 200)
       /\ lastProgress.op = "deleteProgress" =>
            (streak_progress[k] = <<>> /\ lastProgress.status = 200)

C9_Witness ==
    /\ lastProgress.op = "markDone" /\ lastProgress.before = "Done"
    /\ \E k \in DOMAIN streak_progress :
          k # lastProgress.key /\ streak_progress[k] = <<TRUE>>

RowCount(row) ==
    IF "participantCount" \in DOMAIN row THEN row.participantCount
    ELSE row.participant_count

\* the answer holds only streaks of the requested difficulty, in descending
\* order of participant count, and exactly the offset/limit window of them
FilteredWindow(rq) ==
    LET rows == rq.rows
        table == rq.post.streaks
        match == {id \in DOMAIN table : table[id].difficulty = rq.difficulty}
        left == Cardinality(match) - rq.offset
    IN /\ \A i \in 1..Len(rows) :
             /\ rows[i].difficulty = rq.difficulty
             /\ rows[i].id \in match
             /\ RowCount(rows[i]) = table[rows[i].id].participant_count
             /\ Cardinality({id \in match :
                     table[id].participant_count > RowCount(rows[i])}) <= rq.offset + i - 1
             /\ Cardinality({id \in match :
                     table[id].participant_count >= RowCount(rows[i])}) >= rq.offset + i
       /\ \A i, j \in 1..Len(rows) :
             i < j => (RowCount(rows[i]) >= RowCount(rows[j]) /\ rows[i].id # rows[j].id)
       /\ Len(rows) = IF left <= 0 THEN 0 ELSE Min(left, rq.limit)

ListedByDifficulty(r) ==
    req[r].route = "listStreaks" /\ req[r].status = 200 /\ req[r].difficulty # ""

\* C10 as stated: whichever handler serves GET /streaks, a request with a
\* difficulty is answered with the streaks of that difficulty only, by
\* descending participant count, within the offset/limit window.
C10_FilteredByDifficulty ==
    \A r \in Slots : ListedByDifficulty(r) => FilteredWindow(req[r])

\* C10 amended: the same, for the requests served by the handler of line 205
\* (the program of lines 115-371).
C10_FilteredByHandler205 ==
    \A r \in Slots : (ListedByDifficulty(r) /\ req[r].handler = 205) =>
        FilteredWindow(req[r])

\* a served request for the easy streaks, answered with two streaks of
\* different participant counts while a hard streak exists
C10_Witness ==
    \E r \in Slots :
        /\ ListedByDifficulty(r) /\ req[r].handler = 205
        /\ Len(req[r].rows) = 2
        /\ RowCount(req[r].rows[1]) > RowCount(req[r].rows[2])
        /\ \E id \in DOMAIN streaks : streaks[id].difficulty # req[r].difficulty
====
